---- MODULE Spec2Model ----
(***************************************************************************)
(* Akeneo PIM CLI (ktmcp-cli/akeneo): the credential store (config.js),    *)
(* the token manager and API gateway (api.js) and the resource commands    *)
(* (index.js), as a state machine.  One CLI invocation is a process p; the *)
(* store is the file shared by all invocations.                            *)
(*                                                                         *)
(* Encoding of JavaScript values                                           *)
(*   strings          TLA+ strings; "" stands for both '' and undefined    *)
(*                    where the code only tests truthiness                 *)
(*   URLs             sequences of text chunks, <<>> is ''/undefined       *)
(*   response data    tagged records: [t |-> "null"], [t |-> "string",..], *)
(*                    [t |-> "array", a |-> seq], [t |-> "object",         *)
(*                    o |-> seq of [k, v]] (insertion-ordered fields);     *)
(*                    an "array" holds resource objects by name, a "list"  *)
(*                    is an array whose elements are spelled out           *)
(*   texts            sequences of chunks whose concatenation is the text  *)
(***************************************************************************)
EXTENDS Integers, Sequences, FiniteSets, TLC

VARIABLES
  store,     \* config.js `config`: the persisted key/value file
  now,       \* Date.now(), in milliseconds
  pc,        \* per invocation: where its handler stands
  cmd,       \* per invocation: the command and its options
  loc,       \* per invocation: locals of getAccessToken / getClient
  net,       \* per invocation: the HTTP requests it has issued, in order
  out,       \* per invocation: what it has printed, in order
  exitCode,  \* per invocation: -1 while running, else the process exit code
  thrown,    \* per invocation: the error the API operation threw, if any
  result,    \* per invocation: the value the API operation returned, if any
  hist,      \* per invocation: history of its steps (for the properties)
  grant,     \* history: the token request that obtained store.accessToken
  writer,    \* history: the invocation that last wrote each of the two token keys
  lastExchangeFailed  \* history: the most recent token exchange ended in a throw

vars == <<store, now, pc, cmd, loc, net, out, exitCode, thrown, result, hist, grant,
          writer, lastExchangeFailed>>

----------------------------------------------------------------------------
(* Bounds of the model *)

MaxTicks == 2
MaxItems == 2

TickMs == 30 * 1000

Procs == {1, 2}

ApiSuffix == "/api/rest/v1"

DEFAULT_BASE_URL == <<"https://demo.akeneo.com", ApiSuffix>>

PimUrl == <<"https://pim.example", ApiSuffix>>

BaseUrls == { PimUrl, <<"https://pim.example">> }

AccessTokens == {"tokA", "tokB"}

\* expires_in values (seconds) a token endpoint may declare
ExpiresIn == {0, 60, 90}

Resources == {"products", "categories", "attributes"}

\* values of --type / --search
TypeFilters == {"pim_catalog_text"}

Verbs == {"list", "get", "create"}

Ops == [verb : Verbs, res : Resources]

----------------------------------------------------------------------------
(* JavaScript values *)

JsNull == [t |-> "null"]

JsUndefined == [t |-> "undefined"]

JsString(s) == [t |-> "string", s |-> s]

JsNumber(n) == [t |-> "number", n |-> n]

JsArray(a) == [t |-> "array", a |-> a]

JsObject(o) == [t |-> "object", o |-> o]

JsList(l) == [t |-> "list", l |-> l]

\* !!v
Truthy(v) ==
  CASE v.t = "null" -> FALSE
    [] v.t = "undefined" -> FALSE
    [] v.t = "string" -> v.s # ""
    [] v.t = "number" -> v.n # 0
    [] OTHER -> TRUE

\* v[key] for a v that is neither null nor undefined
RECURSIVE Lookup(_, _)
Lookup(o, key) ==
  IF o = <<>> THEN JsUndefined
  ELSE IF o[Len(o)].k = key THEN o[Len(o)].v
  ELSE Lookup(SubSeq(o, 1, Len(o) - 1), key)

GetProp(v, key) == IF v.t = "object" THEN Lookup(v.o, key) ELSE JsUndefined

\* Property access on null or undefined throws a TypeError
Nullish(v) == v.t \in {"null", "undefined"}

----------------------------------------------------------------------------
(* config.js *)

EmptyStore ==
  [clientId |-> "", clientSecret |-> "", username |-> "", password |-> "",
   baseUrl |-> <<>>, accessToken |-> "", tokenExpiry |-> 0]

getConfig(s, key) == s[key]

setConfig(s, key, value) == [s EXCEPT ![key] = value]

\* (a mutant of isConfigured: the password is not looked at)
isConfigured_NoPassword(s) ==
  /\ s.clientId # ""
  /\ s.clientSecret # ""
  /\ s.username # ""

isConfigured(s) ==
  /\ s.clientId # ""
  /\ s.clientSecret # ""
  /\ s.username # ""
  /\ s.password # ""

----------------------------------------------------------------------------
(* Errors: what a rejected promise or a throw carries.  `response` and     *)
(* `request` are the two fields handleApiError and getAccessToken test.    *)

NoError ==
  [type |-> "none", tpl |-> "", arg |-> <<>>, response |-> FALSE,
   status |-> 0, data |-> JsUndefined, request |-> FALSE]

\* new Error(`${tpl}${arg}`)
NewError(tpl, arg) == [NoError EXCEPT !.type = "Error", !.tpl = tpl, !.arg = arg]

\* the TypeError of a property read on null/undefined
TypeErrorOf(what) ==
  [NoError EXCEPT !.type = "TypeError", !.tpl = "Cannot read properties of ",
                  !.arg = <<what>>]

\* axios' rejection for a response whose status is not 2xx
AxiosResponseError(status, data) ==
  [NoError EXCEPT !.type = "AxiosError", !.response = TRUE, !.status = status,
                  !.data = data, !.request = TRUE]

\* axios' rejection when the request was sent and nothing came back
AxiosNoResponse == [NoError EXCEPT !.type = "AxiosError", !.request = TRUE]

Return(v) == [threw |-> FALSE, value |-> v, error |-> NoError]

Throw(e) == [threw |-> TRUE, value |-> JsUndefined, error |-> e]

----------------------------------------------------------------------------
(* Text conversions used in the messages *)

RECURSIVE JoinChunks(_, _)
JoinChunks(parts, sep) ==
  IF parts = <<>> THEN <<>>
  ELSE IF Len(parts) = 1 THEN parts[1]
  ELSE parts[1] \o <<sep>> \o JoinChunks(Tail(parts), sep)

\* JSON.stringify(v), as a sequence of text chunks
RECURSIVE JSONstringify(_)
JSONstringify(v) ==
  CASE v.t = "null" -> <<"null">>
    [] v.t = "undefined" -> <<"undefined">>
    [] v.t = "string" -> <<"\"", v.s, "\"">>
    [] v.t = "number" -> <<ToString(v.n)>>
    [] v.t = "array" ->
         <<"[">> \o JoinChunks([i \in 1..Len(v.a) |-> <<v.a[i]>>], ",") \o <<"]">>
    [] v.t = "list" ->
         <<"[">> \o JoinChunks([i \in 1..Len(v.l) |-> JSONstringify(v.l[i])], ",") \o <<"]">>
    [] v.t = "object" ->
         LET kept == SelectSeq(v.o, LAMBDA f : f.v.t # "undefined")
         IN <<"{">> \o
            JoinChunks([i \in 1..Len(kept) |->
                          <<"\"", kept[i].k, "\":">> \o JSONstringify(kept[i].v)], ",")
            \o <<"}">>

\* `${v}` for a truthy v
TemplateText(v) ==
  CASE v.t = "string" -> <<v.s>>
    [] v.t = "number" -> <<ToString(v.n)>>
    [] v.t = "array" -> JoinChunks([i \in 1..Len(v.a) |-> <<v.a[i]>>], ",")
    [] OTHER -> <<"[object Object]">>

\* data?.key
OptProp(data, key) == IF Nullish(data) THEN JsUndefined ELSE GetProp(data, key)

\* data?.message || JSON.stringify(data)
MessageOrBody(data) ==
  LET m == OptProp(data, "message")
  IN IF Truthy(m) THEN TemplateText(m) ELSE JSONstringify(data)

\* baseUrl.replace('/api/rest/v1', ''): the first occurrence is removed
RECURSIVE ReplaceFirst(_, _)
ReplaceFirst(url, chunk) ==
  IF url = <<>> THEN <<>>
  ELSE IF Head(url) = chunk THEN Tail(url)
  ELSE <<Head(url)>> \o ReplaceFirst(Tail(url), chunk)

\* getConfig('baseUrl') || DEFAULT_BASE_URL
BaseUrlOf(s) == IF getConfig(s, "baseUrl") # <<>> THEN getConfig(s, "baseUrl") ELSE DEFAULT_BASE_URL

----------------------------------------------------------------------------
(* api.js: the pure parts *)

\* (a mutant of CacheValid: the comparison of line 16 the wrong way round)
CacheValid_Inverted(cachedToken, tokenExpiry, t) ==
  /\ cachedToken # ""
  /\ tokenExpiry # 0
  /\ t > tokenExpiry

\* (a mutant of CacheValid: the expiry is not looked at)
CacheValid_NoExpiry(cachedToken, tokenExpiry, t) == cachedToken # ""

\* line 16: cachedToken && tokenExpiry && Date.now() < tokenExpiry
CacheValid(cachedToken, tokenExpiry, t) ==
  /\ cachedToken # ""
  /\ tokenExpiry # 0
  /\ t < tokenExpiry

\* line 21
AuthBaseUrl(baseUrl) == ReplaceFirst(baseUrl, ApiSuffix)

\* (a mutant of ExpiryOf: the lifetime taken as milliseconds)
ExpiryOf_Seconds(t, expires_in) == t + expires_in - 60000

\* line 36: Date.now() + (expires_in * 1000) - 60000
ExpiryOf(t, expires_in) == t + (expires_in * 1000) - 60000

\* lines 38-44: what getAccessToken throws for a failed exchange
TokenFailure(error, authBaseUrl) ==
  IF error.response
  THEN NewError("Authentication failed: ", MessageOrBody(error.data))
  ELSE NewError("Cannot connect to Akeneo at ", authBaseUrl \o <<". Check your base URL.">>)

\* (a mutant of handleApiError: the 429 line is missing)
handleApiError_No429(error, s) ==
  IF error.response
  THEN CASE error.status = 401 ->
              NewError("Authentication failed. Run: akeneo config set", <<>>)
         [] error.status = 403 ->
              NewError("Access forbidden. Check your Akeneo user permissions.", <<>>)
         [] error.status = 404 ->
              NewError("Resource not found in Akeneo.", <<>>)
         [] error.status = 422 ->
              NewError("Validation error: ",
                       LET e == OptProp(error.data, "errors")
                       IN JSONstringify(IF Truthy(e) THEN e ELSE error.data))
         [] OTHER ->
              NewError("API Error", <<"(", ToString(error.status), "): ">>
                                    \o MessageOrBody(error.data))
  ELSE IF error.request
  THEN NewError("No response from Akeneo at ", BaseUrlOf(s) \o <<". Check your instance URL.">>)
  ELSE error

\* lines 61-78: handleApiError always throws; this is what it throws
handleApiError(error, s) ==
  IF error.response
  THEN CASE error.status = 401 ->
              NewError("Authentication failed. Run: akeneo config set", <<>>)
         [] error.status = 403 ->
              NewError("Access forbidden. Check your Akeneo user permissions.", <<>>)
         [] error.status = 404 ->
              NewError("Resource not found in Akeneo.", <<>>)
         [] error.status = 422 ->
              NewError("Validation error: ",
                       LET e == OptProp(error.data, "errors")
                       IN JSONstringify(IF Truthy(e) THEN e ELSE error.data))
         [] error.status = 429 ->
              NewError("Rate limit exceeded. Please wait before retrying.", <<>>)
         [] OTHER ->
              NewError("API Error", <<"(", ToString(error.status), "): ">>
                                    \o MessageOrBody(error.data))
  ELSE IF error.request
  THEN NewError("No response from Akeneo at ", BaseUrlOf(s) \o <<". Check your instance URL.">>)
  ELSE error

\* (a mutant of parseAkeneoList: the envelope's _embedded is returned, not its items)
parseAkeneoList_Embedded(response) ==
  LET data == response.data
  IN IF Nullish(data) THEN Throw(TypeErrorOf(data.t))
     ELSE LET embedded == GetProp(data, "_embedded")
          IN IF Truthy(embedded) /\ Truthy(GetProp(embedded, "items"))
             THEN Return(embedded)
             ELSE Return(IF data.t = "array" THEN data ELSE JsArray(<<>>))

\* lines 80-87
parseAkeneoList(response) ==
  LET data == response.data
  IN IF Nullish(data) THEN Throw(TypeErrorOf(data.t))
     ELSE LET embedded == GetProp(data, "_embedded")
          IN IF Truthy(embedded) /\ Truthy(GetProp(embedded, "items"))
             THEN Return(GetProp(embedded, "items"))
             ELSE Return(IF data.t = "array" THEN data ELSE JsArray(<<>>))

NoParams == [limit |-> 0, page |-> 0, search |-> <<>>]

\* (a mutant of ParamsOf: the type filter is passed as a plain value)
ParamsOf_Plain(c) ==
  IF c.op.verb # "list" THEN NoParams
  ELSE [limit |-> 20, page |-> 1, search |-> IF c.filter # "" THEN <<c.filter>> ELSE <<>>]

\* The query parameters of a list request (lines 96-97, 138, 178-179); limit and
\* page are the defaults.  `search` is <<>> when the request has no such parameter.
ParamsOf(c) ==
  IF c.op.verb # "list" THEN NoParams
  ELSE [limit |-> 20, page |-> 1,
        search |->
          IF c.filter = "" THEN <<>>
          ELSE IF c.op.res = "attributes"
          THEN JSONstringify(
                 JsObject(<<[k |-> "type",
                             v |-> JsList(<<JsObject(<<[k |-> "operator", v |-> JsString("=")],
                                                        [k |-> "value", v |-> JsString(c.filter)]>>)>>)]>>))
          ELSE IF c.op.res = "products" THEN <<c.filter>>
          ELSE <<>>]

\* The path and method of each operation's request
PathOf(op) ==
  IF op.verb = "get" THEN <<"/", op.res, "/", "code-1">> ELSE <<"/", op.res>>

MethodOf(op) == IF op.verb = "create" THEN "POST" ELSE "GET"

\* What create* returns: the identifying fields it was given
EchoOf(op) ==
  JsObject(<<[k |-> IF op.res = "products" THEN "identifier" ELSE "code",
              v |-> JsString("code-1")]>>)

\* What the operation does with a 2xx response (the try block after the await)
OnResponse(op, response) ==
  CASE op.verb = "list" -> parseAkeneoList(response)
    [] op.verb = "get" -> Return(response.data)
    [] op.verb = "create" -> Return(EchoOf(op))

\* The catch block of every operation: catch (error) { handleApiError(error); }
OnFailure(error, s) == Throw(handleApiError(error, s))

----------------------------------------------------------------------------
(* index.js: what a resource command prints once its operation has settled *)

\* the lines after `await withSpinner(...)` inside the try block
PrintResult(c, value) ==
  IF c.json THEN [lines |-> <<"json">>, threw |-> FALSE]
  ELSE CASE c.op.verb = "list" ->
              IF value.t = "array"
              THEN [lines |-> IF value.a = <<>> THEN <<"noResults">> ELSE <<"table">>,
                    threw |-> FALSE]
              ELSE IF ~Truthy(value) THEN [lines |-> <<"noResults">>, threw |-> FALSE]
              ELSE [lines |-> <<>>, threw |-> TRUE]
         [] c.op.verb = "get" ->
              IF Nullish(value) THEN [lines |-> <<"detailHeader">>, threw |-> TRUE]
              ELSE [lines |-> <<"detailHeader", "detail">>, threw |-> FALSE]
         [] c.op.verb = "create" -> [lines |-> <<"created">>, threw |-> FALSE]

\* (a mutant of Handler: the catch block prints the error and does not exit)
Handler_NoExit(c, settled) ==
  LET p == PrintResult(c, settled.value)
  IN IF settled.threw THEN [out |-> <<"error">> \o p.lines, exit |-> 0]
     ELSE IF p.threw THEN [out |-> p.lines \o <<"error">>, exit |-> 1]
     ELSE [out |-> p.lines, exit |-> 0]

\* the handler from `try {` on: its output and the exit code
Handler(c, settled) ==
  IF settled.threw
  THEN [out |-> <<"error">>, exit |-> 1]
  ELSE LET p == PrintResult(c, settled.value)
       IN IF p.threw THEN [out |-> p.lines \o <<"error">>, exit |-> 1]
          ELSE [out |-> p.lines, exit |-> 0]

----------------------------------------------------------------------------
(* What the remote side may answer *)

Items == {"r1", "r2"}

ItemSeqs == UNION {[1..n -> Items] : n \in 0..MaxItems}

Field(k, v) == [k |-> k, v |-> v]

\* {current_page: 1, _embedded: {items: v}}
Envelope(v) ==
  JsObject(<<Field("current_page", JsNumber(1)),
             Field("_embedded", JsObject(<<Field("items", v)>>))>>)

OddBodies ==
  { JsObject(<<>>),
    JsObject(<<Field("_embedded", JsObject(<<>>))>>),
    JsObject(<<Field("_embedded", JsNull)>>),
    Envelope(JsNull), Envelope(JsString("")), Envelope(JsNumber(0)),
    Envelope(JsString("text")), Envelope(JsObject(<<Field("r1", JsNull)>>)),
    JsNull, JsString(""), JsString("text"), JsNumber(5) }

ListBodies ==
  {JsArray(a) : a \in ItemSeqs} \cup {Envelope(JsArray(a)) : a \in ItemSeqs} \cup OddBodies

OneBodies == { JsObject(<<Field("code", JsString("code-1"))>>), JsNull }

Bodies(op) == IF op.verb = "list" THEN ListBodies ELSE OneBodies

ErrBodies ==
  { JsObject(<<Field("message", JsString("remote message"))>>),
    JsObject(<<Field("errors", JsArray(<<"e1">>))>>),
    JsNull }

ErrStatuses == {401, 403, 404, 422, 429, 500}

TokenErrStatuses == {400, 401}

----------------------------------------------------------------------------
(* State of one invocation *)

NoOp == [verb |-> "none", res |-> "none"]

NoCmd == [op |-> NoOp, json |-> FALSE, filter |-> ""]

NoRequest ==
  [to |-> "none", url |-> <<>>, method |-> "", auth |-> "", body |-> <<>>, params |-> NoParams]

NoResponse == [status |-> 0, data |-> JsUndefined]

NoLoc ==
  [baseUrl |-> <<>>, body |-> <<>>, cachedToken |-> "", access_token |-> "",
   expires_in |-> 0, token |-> ""]

NoHist ==
  [calls |-> 0,           \* how many times getAccessToken was entered
   checked |-> FALSE,     \* line 16 has been evaluated
   tok |-> "",            \* the store's accessToken when it was
   live |-> FALSE,        \* whether the store then held a token with now < tokenExpiry
   writes |-> <<>>,       \* the keys this invocation has set
   resp |-> NoResponse,   \* the resource response received
   tokenResp |-> NoResponse,  \* the response of the token endpoint, if one came
   via |-> NoRequest]     \* the token request that obtained loc.token

\* no invocation has written a token key yet
NoWriter == [accessToken |-> 0, tokenExpiry |-> 0]

Init ==
  /\ store = EmptyStore
  /\ now = 0
  /\ pc = [p \in Procs |-> "idle"]
  /\ cmd = [p \in Procs |-> NoCmd]
  /\ loc = [p \in Procs |-> NoLoc]
  /\ net = [p \in Procs |-> <<>>]
  /\ out = [p \in Procs |-> <<>>]
  /\ exitCode = [p \in Procs |-> -1]
  /\ thrown = [p \in Procs |-> NoError]
  /\ result = [p \in Procs |-> JsUndefined]
  /\ hist = [p \in Procs |-> NoHist]
  /\ grant = NoRequest
  /\ writer = NoWriter
  /\ lastExchangeFailed = FALSE

\* Time passes while an invocation waits or between invocations; a synchronous
\* stretch of code takes far less than a tick.
Tick ==
  /\ now < MaxTicks * TickMs
  /\ \A p \in Procs : pc[p] \in {"idle", "done", "awaitToken", "awaitResource"}
  /\ now' = now + TickMs
  /\ UNCHANGED <<store, pc, cmd, loc, net, out, exitCode, thrown, result, hist, grant, writer, lastExchangeFailed>>

\* The process of a finished invocation is gone
Exit(p) ==
  /\ pc[p] = "done"
  /\ pc' = [pc EXCEPT ![p] = "idle"]
  /\ cmd' = [cmd EXCEPT ![p] = NoCmd]
  /\ loc' = [loc EXCEPT ![p] = NoLoc]
  /\ net' = [net EXCEPT ![p] = <<>>]
  /\ out' = [out EXCEPT ![p] = <<>>]
  /\ exitCode' = [exitCode EXCEPT ![p] = -1]
  /\ thrown' = [thrown EXCEPT ![p] = NoError]
  /\ result' = [result EXCEPT ![p] = JsUndefined]
  /\ hist' = [hist EXCEPT ![p] = NoHist]
  /\ UNCHANGED <<store, now, grant, writer, lastExchangeFailed>>

----------------------------------------------------------------------------
(* index.js: the commands *)

SetOp == [verb |-> "set", res |-> "config"]

\* lines 102-106: each option that was given is stored, in this order
ApplyOptions(s, o) ==
  LET s1 == IF o.clientId # "" THEN setConfig(s, "clientId", o.clientId) ELSE s
      s2 == IF o.clientSecret # "" THEN setConfig(s1, "clientSecret", o.clientSecret) ELSE s1
      s3 == IF o.username # "" THEN setConfig(s2, "username", o.username) ELSE s2
      s4 == IF o.password # "" THEN setConfig(s3, "password", o.password) ELSE s3
  IN IF o.baseUrl # <<>> THEN setConfig(s4, "baseUrl", o.baseUrl) ELSE s4

\* lines 102-109: one success line per option stored, an error line if none was given
ConfigSetLines(o) ==
  LET given == (IF o.clientId # "" THEN <<"set">> ELSE <<>>)
               \o (IF o.clientSecret # "" THEN <<"set">> ELSE <<>>)
               \o (IF o.username # "" THEN <<"set">> ELSE <<>>)
               \o (IF o.password # "" THEN <<"set">> ELSE <<>>)
               \o (IF o.baseUrl # <<>> THEN <<"set">> ELSE <<>>)
  IN IF given = <<>> THEN <<"error">> ELSE given

\* `akeneo config set ...` with option values from V (credentials) and U (base URLs)
ConfigSet(p, V, U) ==
  /\ pc[p] = "idle"
  /\ \E o \in [clientId : V \cup {""}, clientSecret : V \cup {""}, username : V \cup {""},
               password : V \cup {""}, baseUrl : U \cup {<<>>}] :
        /\ store' = ApplyOptions(store, o)
        /\ out' = [out EXCEPT ![p] = ConfigSetLines(o)]
  /\ cmd' = [cmd EXCEPT ![p] = [op |-> SetOp, json |-> FALSE, filter |-> ""]]
  /\ exitCode' = [exitCode EXCEPT ![p] = 0]
  /\ pc' = [pc EXCEPT ![p] = "done"]
  /\ UNCHANGED <<now, loc, net, thrown, result, hist, grant, writer, lastExchangeFailed>>

\* The operations that take a filter option: products list --search,
\* attributes list --type
Filtered(op) == op.verb = "list" /\ op.res \in {"products", "attributes"}

\* A resource command up to the call of its API operation: requireAuth() (lines
\* 68-76), then for a create command the JSON.parse of --values / --labels.
\* F holds the values of the filter option; "" is the option not given.
ResourceCommand(p, O, J, F) ==
  /\ pc[p] = "idle"
  /\ \E op \in O, json \in J, badJson \in BOOLEAN, filter \in F \cup {""} :
        /\ badJson => op.verb = "create"
        /\ filter # "" => Filtered(op)
        /\ cmd' = [cmd EXCEPT ![p] = [op |-> op, json |-> json, filter |-> filter]]
        /\ IF ~isConfigured(store)
           THEN /\ out' = [out EXCEPT ![p] = <<"error", "hint", "hint", "hint">>]
                /\ exitCode' = [exitCode EXCEPT ![p] = 1]
                /\ pc' = [pc EXCEPT ![p] = "done"]
           ELSE IF badJson
           THEN /\ out' = [out EXCEPT ![p] = <<"error">>]
                /\ exitCode' = [exitCode EXCEPT ![p] = 1]
                /\ pc' = [pc EXCEPT ![p] = "done"]
           ELSE /\ pc' = [pc EXCEPT ![p] = "readCreds"]
                /\ UNCHANGED <<out, exitCode>>
  /\ UNCHANGED <<store, now, loc, net, thrown, result, hist, grant, writer, lastExchangeFailed>>

\* The operation has settled (returned or thrown): withSpinner passes that on,
\* and the handler prints and ends (lines 154-170 and their like).
Settle(p, settled) ==
  /\ thrown' = [thrown EXCEPT ![p] = settled.error]
  /\ result' = [result EXCEPT ![p] = settled.value]
  /\ out' = [out EXCEPT ![p] = @ \o Handler(cmd[p], settled).out]
  /\ exitCode' = [exitCode EXCEPT ![p] = Handler(cmd[p], settled).exit]
  /\ pc' = [pc EXCEPT ![p] = "done"]

----------------------------------------------------------------------------
(* api.js: getAccessToken, step by step *)

\* lines 7-11
ReadCreds(p) ==
  /\ pc[p] = "readCreds"
  /\ loc' = [loc EXCEPT ![p].baseUrl = BaseUrlOf(store),
                        ![p].body = <<getConfig(store, "clientId"), getConfig(store, "clientSecret"),
                                      getConfig(store, "username"), getConfig(store, "password")>>]
  /\ hist' = [hist EXCEPT ![p].calls = @ + 1]
  /\ pc' = [pc EXCEPT ![p] = "readToken"]
  /\ UNCHANGED <<store, now, cmd, net, out, exitCode, thrown, result, grant, writer, lastExchangeFailed>>

\* line 14
ReadToken(p) ==
  /\ pc[p] = "readToken"
  /\ loc' = [loc EXCEPT ![p].cachedToken = getConfig(store, "accessToken")]
  /\ pc' = [pc EXCEPT ![p] = "readExpiry"]
  /\ UNCHANGED <<store, now, cmd, net, out, exitCode, thrown, result, hist, grant, writer, lastExchangeFailed>>

TokenRequest(l) ==
  [to |-> "token", url |-> AuthBaseUrl(l.baseUrl) \o <<"/api/oauth/v1/token">>,
   method |-> "POST", auth |-> "", body |-> l.body, params |-> NoParams]

\* lines 15-18, and 21-24 when the cached token does not serve
CheckExpiry(p) ==
  /\ pc[p] = "readExpiry"
  /\ LET tokenExpiry == getConfig(store, "tokenExpiry")
         h == [hist[p] EXCEPT !.checked = TRUE, !.tok = store.accessToken,
                              !.live = (store.accessToken # "" /\ now < store.tokenExpiry)]
     IN IF CacheValid(loc[p].cachedToken, tokenExpiry, now)
        THEN /\ loc' = [loc EXCEPT ![p].token = loc[p].cachedToken]
             /\ hist' = [hist EXCEPT ![p] = [h EXCEPT !.via = grant]]
             /\ pc' = [pc EXCEPT ![p] = "getClient"]
             /\ net' = net
        ELSE /\ net' = [net EXCEPT ![p] = Append(@, TokenRequest(loc[p]))]
             /\ hist' = [hist EXCEPT ![p] = h]
             /\ pc' = [pc EXCEPT ![p] = "awaitToken"]
             /\ loc' = loc
  /\ UNCHANGED <<store, now, cmd, out, exitCode, thrown, result, grant, writer, lastExchangeFailed>>

\* The token endpoint answers 2xx; lines 34-35
TokenGranted(p) ==
  /\ pc[p] = "awaitToken"
  /\ \E access_token \in AccessTokens, expires_in \in ExpiresIn :
        /\ loc' = [loc EXCEPT ![p].access_token = access_token, ![p].expires_in = expires_in]
        /\ store' = setConfig(store, "accessToken", access_token)
  /\ grant' = net[p][Len(net[p])]
  /\ writer' = [writer EXCEPT !.accessToken = p]
  /\ lastExchangeFailed' = FALSE
  /\ hist' = [hist EXCEPT ![p].writes = Append(@, "accessToken"),
                          ![p].via = net[p][Len(net[p])],
                          ![p].tokenResp = [status |-> 200, data |-> JsUndefined]]
  /\ pc' = [pc EXCEPT ![p] = "setExpiry"]
  /\ UNCHANGED <<now, cmd, net, out, exitCode, thrown, result>>

\* lines 36-37
SetExpiry(p) ==
  /\ pc[p] = "setExpiry"
  /\ store' = setConfig(store, "tokenExpiry", ExpiryOf(now, loc[p].expires_in))
  /\ loc' = [loc EXCEPT ![p].token = loc[p].access_token]
  /\ hist' = [hist EXCEPT ![p].writes = Append(@, "tokenExpiry")]
  /\ pc' = [pc EXCEPT ![p] = "getClient"]
  /\ writer' = [writer EXCEPT !.tokenExpiry = p]
  /\ UNCHANGED <<now, cmd, net, out, exitCode, thrown, result, grant, lastExchangeFailed>>

\* (a mutant of TokenFailed: the catch block also drops the cached token)
TokenFailed_Clears(p) ==
  /\ pc[p] = "awaitToken"
  /\ \E error \in {AxiosNoResponse}
                  \cup {AxiosResponseError(st, d) : st \in TokenErrStatuses, d \in ErrBodies} :
        /\ Settle(p, OnFailure(TokenFailure(error, AuthBaseUrl(loc[p].baseUrl)), store))
        /\ hist' = [hist EXCEPT ![p].tokenResp =
                       IF error.response THEN [status |-> error.status, data |-> error.data]
                       ELSE NoResponse]
  /\ store' = setConfig(store, "accessToken", "")
  /\ lastExchangeFailed' = TRUE
  /\ UNCHANGED <<now, cmd, loc, net, grant, writer>>

\* The exchange fails: the endpoint answers non-2xx, or nothing comes back.
\* Lines 38-44 throw; the operation's catch block hands that to handleApiError.
TokenFailed(p) ==
  /\ pc[p] = "awaitToken"
  /\ \E error \in {AxiosNoResponse}
                  \cup {AxiosResponseError(st, d) : st \in TokenErrStatuses, d \in ErrBodies} :
        /\ Settle(p, OnFailure(TokenFailure(error, AuthBaseUrl(loc[p].baseUrl)), store))
        /\ hist' = [hist EXCEPT ![p].tokenResp =
                       IF error.response THEN [status |-> error.status, data |-> error.data]
                       ELSE NoResponse]
  /\ lastExchangeFailed' = TRUE
  /\ UNCHANGED <<store, now, cmd, loc, net, grant, writer>>

\* The token endpoint answers 2xx with the JSON body null: response.data is
\* null, the destructuring of line 34 throws a TypeError inside the try block,
\* and the catch of lines 38-44 takes it for the failure of the request.
TokenBodyNull(p) ==
  /\ pc[p] = "awaitToken"
  /\ Settle(p, OnFailure(TokenFailure(TypeErrorOf("null"), AuthBaseUrl(loc[p].baseUrl)), store))
  /\ hist' = [hist EXCEPT ![p].tokenResp = [status |-> 200, data |-> JsNull]]
  /\ lastExchangeFailed' = TRUE
  /\ UNCHANGED <<store, now, cmd, loc, net, grant, writer>>

----------------------------------------------------------------------------
(* api.js: getClient and the request of the operation *)

\* (a mutant of ResourceRequest: the Authorization header is left out)
ResourceRequest_NoAuth(c, baseURL, token) ==
  [to |-> "resource", url |-> baseURL \o PathOf(c.op), method |-> MethodOf(c.op),
   auth |-> "", body |-> <<>>, params |-> ParamsOf(c)]

ResourceRequest(c, baseURL, token) ==
  [to |-> "resource", url |-> baseURL \o PathOf(c.op), method |-> MethodOf(c.op),
   auth |-> token, body |-> <<>>, params |-> ParamsOf(c)]

\* lines 49-58, then the operation's client.get / client.post
GetClient(p) ==
  /\ pc[p] = "getClient"
  /\ net' = [net EXCEPT ![p] = Append(@, ResourceRequest(cmd[p], BaseUrlOf(store), loc[p].token))]
  /\ pc' = [pc EXCEPT ![p] = "awaitResource"]
  /\ UNCHANGED <<store, now, cmd, loc, out, exitCode, thrown, result, hist, grant, writer, lastExchangeFailed>>

\* try { ... } catch (error) { handleApiError(error) } around what follows the await
TryOp(attempt, s) == IF attempt.threw THEN OnFailure(attempt.error, s) ELSE attempt

\* The resource endpoint answers 2xx
ResourceReplied(p) ==
  /\ pc[p] = "awaitResource"
  /\ \E status \in {200}, data \in Bodies(cmd[p].op) :
        LET response == [status |-> status, data |-> data]
        IN /\ hist' = [hist EXCEPT ![p].resp = response]
           /\ Settle(p, TryOp(OnResponse(cmd[p].op, response), store))
  /\ UNCHANGED <<store, now, cmd, loc, net, grant, writer, lastExchangeFailed>>

\* The resource endpoint answers with a status that is not 2xx
ResourceRejected(p) ==
  /\ pc[p] = "awaitResource"
  /\ \E status \in ErrStatuses, data \in ErrBodies :
        /\ hist' = [hist EXCEPT ![p].resp = [status |-> status, data |-> data]]
        /\ Settle(p, OnFailure(AxiosResponseError(status, data), store))
  /\ UNCHANGED <<store, now, cmd, loc, net, grant, writer, lastExchangeFailed>>

\* Nothing comes back for the resource request
ResourceUnanswered(p) ==
  /\ pc[p] = "awaitResource"
  /\ Settle(p, OnFailure(AxiosNoResponse, store))
  /\ UNCHANGED <<store, now, cmd, loc, net, hist, grant, writer, lastExchangeFailed>>

----------------------------------------------------------------------------
(* Specifications *)

\* The steps of an invocation once its command has started
Run(p) ==
  \/ ReadCreds(p)
  \/ ReadToken(p)
  \/ CheckExpiry(p)
  \/ TokenGranted(p)
  \/ SetExpiry(p)
  \/ TokenFailed(p)
  \/ TokenBodyNull(p)
  \/ GetClient(p)
  \/ ResourceReplied(p)
  \/ ResourceRejected(p)
  \/ ResourceUnanswered(p)
  \/ Exit(p)

\* One invocation at a time, every command, one value per credential
Next ==
  \/ Tick
  \/ ConfigSet(1, {"v1"}, {PimUrl})
  \/ ResourceCommand(1, Ops, BOOLEAN, TypeFilters)
  \/ Run(1)

Spec == Init /\ [][Next]_vars

\* Two invocations share the store: the credentials are already configured
\* (an earlier `config set` of all four), nothing is cached yet.
ConfiguredStore ==
  [EmptyStore EXCEPT !.clientId = "v1", !.clientSecret = "v1",
                     !.username = "v1", !.password = "v1"]

InitRace ==
  /\ store = ConfiguredStore
  /\ now = 0
  /\ pc = [p \in Procs |-> "idle"]
  /\ cmd = [p \in Procs |-> NoCmd]
  /\ loc = [p \in Procs |-> NoLoc]
  /\ net = [p \in Procs |-> <<>>]
  /\ out = [p \in Procs |-> <<>>]
  /\ exitCode = [p \in Procs |-> -1]
  /\ thrown = [p \in Procs |-> NoError]
  /\ result = [p \in Procs |-> JsUndefined]
  /\ hist = [p \in Procs |-> NoHist]
  /\ grant = NoRequest
  /\ writer = NoWriter
  /\ lastExchangeFailed = FALSE

\* api.js lines 6-45: the steps of one call of getAccessToken
TokenStep(p) ==
  \/ ReadCreds(p)
  \/ ReadToken(p)
  \/ CheckExpiry(p)
  \/ TokenGranted(p)
  \/ SetExpiry(p)
  \/ TokenFailed(p)
  \/ TokenBodyNull(p)

\* Each runs `products list` as far as the return of getAccessToken, the steps
\* of the two interleaved in every way
NextRace ==
  \/ Tick
  \/ \E p \in Procs : ResourceCommand(p, {[verb |-> "list", res |-> "products"]}, {FALSE}, {})
  \/ \E p \in Procs : TokenStep(p)

SpecRace == InitRace /\ [][NextRace]_vars

----------------------------------------------------------------------------
(* Vocabulary of the properties *)

TokenRequests(p) == SelectSeq(net[p], LAMBDA r : r.to = "token")

ResourceRequests(p) == SelectSeq(net[p], LAMBDA r : r.to = "resource")

\* The invocation is a resource command
IsResource(p) == cmd[p].op \in Ops

\* getAccessToken has returned in invocation p
TokenReturned(p) == pc[p] \in {"getClient", "awaitResource"} \/ (pc[p] = "done" /\ ResourceRequests(p) # <<>>)

----------------------------------------------------------------------------
(* C1: when getAccessToken finds in the store an accessToken and a         *)
(* tokenExpiry with now < tokenExpiry, it returns that token unchanged,    *)
(* issues no token request, and writes nothing to the store.               *)

C1_CachedTokenServes ==
  \A p \in Procs :
    (hist[p].checked /\ hist[p].live) =>
      /\ TokenReturned(p)
      /\ loc[p].token = hist[p].tok
      /\ store.accessToken = hist[p].tok
      /\ TokenRequests(p) = <<>>
      /\ hist[p].writes = <<>>

C1_Witness ==
  \E p \in Procs :
    /\ hist[p].checked /\ hist[p].live
    /\ pc[p] = "awaitResource"
    /\ net[p][1].auth = "tokB"

(* C2: after a successful exchange answered {access_token, expires_in} at  *)
(* time now, the store holds accessToken = access_token and tokenExpiry =  *)
(* now + expires_in*1000 - 60000, whatever it held before, and the call    *)
(* returns access_token.                                                   *)

C2_ExchangePersists ==
  \A p \in Procs :
    (pc[p] = "getClient" /\ hist[p].writes # <<>>) =>
      /\ store.accessToken = loc[p].access_token
      /\ store.tokenExpiry = now + loc[p].expires_in * 1000 - 60000
      /\ loc[p].token = loc[p].access_token
      /\ hist[p].writes = <<"accessToken", "tokenExpiry">>

\* a token was cached before, and the exchange replaced it by another one
C2_Witness ==
  \E p \in Procs :
    /\ pc[p] = "getClient"
    /\ hist[p].tok = "tokA"
    /\ loc[p].access_token = "tokB" /\ loc[p].expires_in = 90
    /\ now = TickMs
    /\ store.accessToken = "tokB" /\ store.tokenExpiry = 60000

(* The error kinds of the specification, read off the message the code throws *)

KindOf(e) ==
  CASE e.type = "none" -> "none"
    [] e.type # "Error" -> "unclassified"
    [] e.tpl \in {"Authentication failed. Run: akeneo config set", "Authentication failed: "} ->
         "AuthError"
    [] e.tpl = "Access forbidden. Check your Akeneo user permissions." -> "PermissionError"
    [] e.tpl = "Resource not found in Akeneo." -> "NotFoundError"
    [] e.tpl = "Validation error: " -> "ValidationError"
    [] e.tpl = "Rate limit exceeded. Please wait before retrying." -> "RateLimitError"
    [] e.tpl \in {"No response from Akeneo at ", "Cannot connect to Akeneo at "} ->
         "ConnectivityError"
    [] e.tpl = "API Error" -> "ApiError"
    [] OTHER -> "unclassified"

ErrorKinds ==
  {"AuthError", "PermissionError", "NotFoundError", "ValidationError", "RateLimitError",
   "ConnectivityError", "ApiError"}

KindOfStatus(status) ==
  CASE status = 401 -> "AuthError"
    [] status = 403 -> "PermissionError"
    [] status = 404 -> "NotFoundError"
    [] status = 422 -> "ValidationError"
    [] status = 429 -> "RateLimitError"
    [] OTHER -> "ApiError"

\* The resource request of invocation p was answered with this status
Answered(p, status) == pc[p] = "done" /\ IsResource(p) /\ hist[p].resp.status = status

(* C3: whichever of the nine operations gets a response with status 401,   *)
(* 403, 404, 422 or 429 throws the error kind of that status, once, and    *)
(* the invocation has issued that one resource request and no other.       *)

C3_StatusKinds ==
  \A p \in Procs : \A status \in {401, 403, 404, 422, 429} :
    Answered(p, status) =>
      /\ KindOf(thrown[p]) = KindOfStatus(status)
      /\ result[p] = JsUndefined
      /\ Len(ResourceRequests(p)) = 1
      /\ Len(SelectSeq(out[p], LAMBDA l : l = "error")) = 1

\* getProduct("missing-sku") answered 404
C3_Witness ==
  \E p \in Procs :
    /\ Answered(p, 404)
    /\ cmd[p].op = [verb |-> "get", res |-> "products"]
    /\ KindOf(thrown[p]) = "NotFoundError"

(* C4: a list operation answered with {_embedded: {items: S}}, S a         *)
(* sequence, returns exactly S.                                            *)

C4_EnvelopeItems ==
  \A p \in Procs : \A a \in ItemSeqs :
    (Answered(p, 200) /\ cmd[p].op.verb = "list" /\ hist[p].resp.data = Envelope(JsArray(a))) =>
      /\ thrown[p] = NoError
      /\ result[p] = JsArray(a)

C4_Witness ==
  \E p \in Procs :
    /\ Answered(p, 200)
    /\ cmd[p].op = [verb |-> "list", res |-> "attributes"]
    /\ hist[p].resp.data = Envelope(JsArray(<<"r2", "r1">>))
    /\ result[p] = JsArray(<<"r2", "r1">>)

\* data is {_embedded: {items: S}} with S a sequence
IsSeqEnvelope(data) ==
  /\ data.t = "object"
  /\ GetProp(data, "_embedded").t = "object"
  /\ GetProp(GetProp(data, "_embedded"), "items").t = "array"

(* C5: a list operation answered with a bare sequence returns it           *)
(* unchanged; answered with anything that is neither a sequence nor an     *)
(* envelope whose items are a sequence, it returns the empty sequence.     *)

C5_OtherShapesEmpty ==
  \A p \in Procs :
    (Answered(p, 200) /\ cmd[p].op.verb = "list") =>
      LET data == hist[p].resp.data
      IN /\ data.t = "array" => (thrown[p] = NoError /\ result[p] = data)
         /\ (data.t # "array" /\ ~IsSeqEnvelope(data)) =>
              (thrown[p] = NoError /\ result[p] = JsArray(<<>>))

\* the four credentials are all in the store
Credentialed(s) == \A k \in {"clientId", "clientSecret", "username", "password"} : s[k] # ""

(* C6: a resource command started while clientId, clientSecret, username  *)
(* or password is missing from the store ends at once with exit code 1     *)
(* and issues no HTTP request, whatever else the store holds.              *)

C7_LazyRefresh ==
  \A p \in Procs :
    /\ (hist[p].checked /\ ~hist[p].live) =>
         /\ Len(TokenRequests(p)) = 1
         /\ net[p][1].to = "token"
         /\ TokenReturned(p) =>
              /\ hist[p].writes # <<>>
              /\ loc[p].token = loc[p].access_token
         /\ ResourceRequests(p) # <<>> =>
              /\ Len(net[p]) = 2
              /\ net[p][2].to = "resource"
              /\ net[p][2].auth = loc[p].access_token
    /\ TokenRequests(p) # <<>> =>
         /\ IsResource(p)
         /\ hist[p].checked /\ ~hist[p].live

\* no time has passed since a token was stored (so it was stored already
\* expired), and the next operation has exchanged it for another
C7_Witness ==
  \E p \in Procs :
    /\ now = 0
    /\ hist[p].tok = "tokA"
    /\ ~hist[p].live
    /\ pc[p] = "awaitResource"
    /\ net[p][1].to = "token"
    /\ net[p][2].auth = "tokB"

(* C8: every failure of an operation reaches the caller as one error of    *)
(* one of the seven kinds; the token manager's error passes the gateway's  *)
(* failure path as it is; no operation returns normally after a failure.   *)

C8_EveryFailureClassified ==
  \A p \in Procs :
    (pc[p] = "done" /\ IsResource(p) /\ hist[p].checked) =>
      /\ (ResourceRequests(p) = <<>> \/ hist[p].resp.status # 200) =>
           (thrown[p] # NoError /\ result[p] = JsUndefined)
      /\ thrown[p] # NoError => KindOf(thrown[p]) \in ErrorKinds
      /\ ResourceRequests(p) = <<>> =>
           thrown[p].tpl \in {"Authentication failed: ", "Cannot connect to Akeneo at "}

(* C9: a resource command whose API operation fails prints the error line  *)
(* and nothing else, before or after, and exits with a non-zero code.      *)

C9_NoOutputOnFailure ==
  \A p \in Procs :
    IsResource(p) =>
      /\ pc[p] # "done" => out[p] = <<>>
      /\ (pc[p] = "done" /\ thrown[p] # NoError) =>
           /\ out[p] = <<"error">>
           /\ exitCode[p] # 0 /\ exitCode[p] # -1

\* a failed `products list` in table mode
C9_Witness ==
  \E p \in Procs :
    /\ cmd[p].op = [verb |-> "list", res |-> "products"] /\ ~cmd[p].json
    /\ pc[p] = "done"
    /\ hist[p].resp.status = 500
    /\ thrown[p] # NoError
    /\ out[p] = <<"error">>

(* C10: the resource request of an invocation carries a token that was     *)
(* obtained from the credentials and base URL the store holds now.         *)

C10_TokenFromCurrentValues ==
  \A p \in Procs :
    pc[p] = "awaitResource" =>
      /\ net[p][Len(net[p])].auth = loc[p].token
      /\ hist[p].via.to = "token"
      /\ hist[p].via.body = <<store.clientId, store.clientSecret, store.username, store.password>>
      /\ hist[p].via.url = AuthBaseUrl(BaseUrlOf(store)) \o <<"/api/oauth/v1/token">>

\* the text a sequence of chunks spells
RECURSIVE Text(_)
Text(chunks) == IF chunks = <<>> THEN "" ELSE Head(chunks) \o Text(Tail(chunks))

(* C11: the request of listAttributes carries, for a non-empty type filter *)
(* t, a search parameter that is the JSON text                             *)
(* {"type":[{"operator":"=","value":t}]} and never t itself; without a     *)
(* type filter it carries no search parameter.                             *)

C11_TypeFilterEncoded ==
  \A p \in Procs :
    (cmd[p].op = [verb |-> "list", res |-> "attributes"] /\ ResourceRequests(p) # <<>>) =>
      LET req == ResourceRequests(p)[1]
      IN /\ req.method = "GET"
         /\ req.url = BaseUrlOf(store) \o <<"/", "attributes">>
         /\ cmd[p].filter = "" => req.params.search = <<>>
         /\ cmd[p].filter # "" =>
              /\ Text(req.params.search)
                   = "{\"type\":[{\"operator\":\"=\",\"value\":\"" \o cmd[p].filter \o "\"}]}"
              /\ Text(req.params.search) # cmd[p].filter

\* listAttributes({type: "pim_catalog_text"})
C11_Witness ==
  \E p \in Procs :
    /\ cmd[p].op = [verb |-> "list", res |-> "attributes"]
    /\ cmd[p].filter = "pim_catalog_text"
    /\ pc[p] = "awaitResource"
    /\ Text(net[p][Len(net[p])].params.search)
         = "{\"type\":[{\"operator\":\"=\",\"value\":\"pim_catalog_text\"}]}"

\* invocation p has carried its exchange through: lines 24-37 are behind it
Exchanged(p) == hist[p].writes = <<"accessToken", "tokenExpiry">>

(* C12: in one invocation getAccessToken is entered once and has returned  *)
(* before the resource request is issued; there is at most one token       *)
(* request, and exactly one resource request if the token step succeeded,  *)
(* none if it failed; the two are never in flight together; the bearer     *)
(* token of the resource request is the value getAccessToken returned.     *)

C12_TokenThenRequest ==
  \A p \in Procs :
    IsResource(p) =>
      /\ hist[p].calls <= 1
      /\ Len(TokenRequests(p)) <= 1
      /\ Len(ResourceRequests(p)) <= 1
      /\ pc[p] \in {"readToken", "readExpiry", "awaitToken", "setExpiry", "getClient"} =>
           (hist[p].calls = 1 /\ ResourceRequests(p) = <<>>)
      /\ ResourceRequests(p) # <<>> =>
           /\ hist[p].calls = 1 /\ hist[p].checked
           /\ loc[p].token # ""
           /\ ResourceRequests(p)[1].auth = loc[p].token
           /\ TokenRequests(p) # <<>> =>
                /\ net[p][1].to = "token" /\ net[p][2].to = "resource"
                /\ hist[p].writes = <<"accessToken", "tokenExpiry">>
      /\ (pc[p] = "done" /\ hist[p].calls = 1) =>
           /\ loc[p].token # "" => Len(ResourceRequests(p)) = 1
           /\ loc[p].token = "" => (ResourceRequests(p) = <<>> /\ Len(TokenRequests(p)) = 1)

\* an invocation that exchanged, then requested, and ended well
C12_Witness ==
  \E p \in Procs :
    /\ pc[p] = "done" /\ exitCode[p] = 0
    /\ Len(net[p]) = 2
    /\ net[p][1].to = "token"
    /\ net[p][2].to = "resource" /\ net[p][2].auth = "tokA"
    /\ loc[p].token = "tokA"

(* C13: when two invocations sharing the store have both exchanged, each   *)
(* holds the token issued to it, and the store holds the accessToken and   *)
(* the tokenExpiry written by one and the same invocation, the one that    *)
(* wrote last; never the accessToken of one with the tokenExpiry of the    *)
(* other.                                                                  *)

C13_LastWriterWins ==
  \A p, q \in Procs :
    (p # q /\ Exchanged(p) /\ Exchanged(q)) =>
      /\ loc[p].token = loc[p].access_token
      /\ writer.accessToken = writer.tokenExpiry
      /\ store.accessToken = loc[writer.tokenExpiry].access_token

\* The exchange of invocation p has failed: getAccessToken threw
ExchangeFailed(p) ==
  pc[p] = "done" /\ TokenRequests(p) # <<>> /\ loc[p].token = ""

\* the base URL without a trailing /api/rest/v1
StripSuffix(url) ==
  IF url # <<>> /\ url[Len(url)] = ApiSuffix THEN SubSeq(url, 1, Len(url) - 1) ELSE url

(* C14: a failed exchange raises exactly one of two errors: AuthError with  *)
(* the response's message (or the body as JSON) if the token endpoint sent *)
(* a response, ConnectivityError naming the base URL without its           *)
(* /api/rest/v1 suffix if none came; ConnectivityError only in that case.  *)

C14_TokenFailureKinds ==
  \A p \in Procs :
    ExchangeFailed(p) =>
      /\ KindOf(thrown[p]) \in {"AuthError", "ConnectivityError"}
      /\ hist[p].tokenResp # NoResponse =>
           /\ KindOf(thrown[p]) = "AuthError"
           /\ thrown[p].arg = MessageOrBody(hist[p].tokenResp.data)
      /\ hist[p].tokenResp = NoResponse =>
           /\ KindOf(thrown[p]) = "ConnectivityError"
           /\ thrown[p].arg = StripSuffix(loc[p].baseUrl) \o <<". Check your base URL.">>

(* C15: a failed exchange changes nothing: the step in which the exchange  *)
(* of an invocation fails leaves the store as it was, accessToken being    *)
(* what the invocation found when it was called; the invocation has        *)
(* written no key and issues no resource request; and an invocation that   *)
(* calls getAccessToken after a failed exchange issues a token request.    *)

C15_FailedExchangeChangesNothing ==
  [][\A p \in Procs :
       /\ (pc[p] = "awaitToken" /\ pc'[p] = "done") =>
            /\ store' = store
            /\ store'.accessToken = hist[p].tok
            /\ hist'[p].writes = <<>>
            /\ SelectSeq(net'[p], LAMBDA r : r.to = "resource") = <<>>
       /\ (lastExchangeFailed' /\ hist'[p].checked) =>
            SelectSeq(net'[p], LAMBDA r : r.to = "token") # <<>>]_vars

\* after a failed exchange that left an expired token in the store, the next
\* invocation is exchanging again
C15_Witness ==
  \E p \in Procs :
    /\ lastExchangeFailed
    /\ pc[p] = "awaitToken"
    /\ store.accessToken # ""
    /\ hist[p].writes = <<>>

====
